---------------------------- MODULE Spec2Model ----------------------------
(***************************************************************************)
(* AmpBridgeCoordinator (custom_components/ampbridge/coordinator.py): the  *)
(* in-memory zone and group maps, the MQTT callbacks that fold inbound     *)
(* messages into them, the command path that publishes to the "set"        *)
(* topics, and the source-name mapping.                                    *)
(*                                                                         *)
(* Representation.  A text is a TLA+ string.  A topic is the sequence of   *)
(* its "/"-separated segments, i.e. the value of topic.split("/").  A      *)
(* Python dict with integer keys is a function whose DOMAIN is the key     *)
(* set; zone_order keeps the insertion order of self.zones.                *)
(* coordinator.py line 173-174 carries a stray "except ValueError" clause  *)
(* that belongs to no try statement; the handler is modelled without it.   *)
(***************************************************************************)
EXTENDS Integers, Sequences, FiniteSets, TLC

VARIABLES
    pc,            \* position of async_start / async_stop
    zones,         \* self.zones
    zone_order,    \* insertion order of the keys of self.zones
    groups,        \* self.groups
    mqtt_client,   \* self.mqtt_client: "None" or "client"
    connected,     \* self.connected
    subscriptions, \* topic filters subscribed on the current connection
    loop_queue,    \* callbacks scheduled with call_soon_threadsafe, not yet run
    data,          \* coordinator.data: the last snapshot handed to observers
    jobs,          \* _publish closures handed to the executor, not yet run
    published,     \* messages handed to mqtt_client.publish, in order
    notified,      \* number of snapshot notifications triggered so far
    raised,        \* exception the last operation raised to its caller
    log,           \* warning, error or skip line the last operation logged ("" if none)
    n_ops,         \* inbound messages handled and commands issued so far
    setup          \* a platform's async_setup_entry: platform, position, polls
                   \* made, entities added, exception raised

vars == <<pc, zones, zone_order, groups, mqtt_client, connected, subscriptions,
          loop_queue, data, jobs, published, notified, raised, log,
          n_ops, setup>>

-----------------------------------------------------------------------------
(* Bounds *)

MaxOps == 2
MaxInt == 160

-----------------------------------------------------------------------------
(* const.py *)

MQTT_BASE_TOPIC == <<"ampbridge", "zones">>
MQTT_GROUPS_BASE_TOPIC == <<"ampbridge", "groups">>

-----------------------------------------------------------------------------
(* Inputs *)

(* The payload Undecodable stands for a byte string that is not valid UTF-8. *)
Undecodable == "<0xff>"

TextPayloads == {"TV", "150"}

Payloads == TextPayloads \cup {Undecodable}

(* Zone 0 is the zone every successful discovery returns; zone 1 is never  *)
(* discovered.                                                             *)
AttrSegs == {"name", "volume", "mute", "source", "connected",
             "description", "zone_count", "bass"}

WellFormedTopics ==
    {<<"ampbridge", "zones", "0", a>> : a \in AttrSegs}
        \cup {<<"ampbridge", "zones", "1", a>> : a \in {"name", "volume"}}
        \cup {<<"ampbridge", "groups", "1", a>> : a \in AttrSegs}

OtherTopics ==
    { <<"ampbridge", "zones", "0">>,
      <<"other", "zones", "0", "volume">>,
      <<"ampbridge", "status", "0", "volume">>,
      <<"ampbridge", "zones", "x", "volume">>,
      <<"ampbridge", "groups", "x", "volume">>,
      <<"ampbridge", "zones", "0", "source", "set">> }

Topics == WellFormedTopics \cup OtherTopics

(* The topics whose payload goes through int(), and one that keeps it as    *)
(* text, get the digits payload as well.                                    *)
DigitTopics ==
    { <<"ampbridge", "zones", "0", "volume">>,
      <<"ampbridge", "zones", "1", "volume">>,
      <<"ampbridge", "groups", "1", "volume">>,
      <<"ampbridge", "groups", "1", "zone_count">>,
      <<"ampbridge", "zones", "0", "connected">> }

Messages ==
    [topic : Topics, payload : {"TV"}]
        \cup [topic : DigitTopics, payload : {"150"}]
        \cup [topic : {<<"ampbridge", "zones", "0", "volume">>,
                       <<"ampbridge", "groups", "1", "name">>},
              payload : {Undecodable}]

-----------------------------------------------------------------------------
(* Python's int(str): optional surrounding whitespace, optional sign,       *)
(* decimal digits (leading zeros allowed).  The result is [ok, val]; ok is  *)
(* FALSE where int() raises ValueError.                                     *)

Abs(n) == IF n < 0 THEN 0 - n ELSE n

Signs(n) == IF n < 0 THEN {"-"} ELSE IF n = 0 THEN {"", "+", "-"} ELSE {"", "+"}

IntForms(n) ==
    {w1 \o sg \o pad \o ToString(Abs(n)) \o w2 :
        w1 \in {"", " "}, sg \in Signs(n), pad \in {"", "0"}, w2 \in {"", " "}}

int_eval(s) ==
    LET cands == {n \in (0 - MaxInt)..MaxInt : s \in IntForms(n)}
    IN  IF cands = {} THEN [ok |-> FALSE, val |-> 0]
        ELSE [ok |-> TRUE, val |-> CHOOSE n \in cands : TRUE]

(* The payloads the commands of the model put on the wire, which the broker *)
(* sends back to a client whose filter matches the command topic           *)
WirePayloads == {"Off", "Source 3", "CustomName", "Source 5", "42", "ON"}

(* int() over the texts that occur as a topic segment or a payload *)
IntTexts == Payloads \cup WirePayloads
                \cup UNION {{t[i] : i \in 1..Len(t)} : t \in Topics}

int_table == [s \in IntTexts |-> int_eval(s)]

int(s) == int_table[s]

(* bytes.decode() *)
decode(p) == IF p = Undecodable THEN [ok |-> FALSE, val |-> ""]
             ELSE [ok |-> TRUE, val |-> p]

-----------------------------------------------------------------------------
(* _on_message: the handler computed as a function of the two maps and the  *)
(* message.  Its result is the two maps afterwards, the number of           *)
(* call_soon_threadsafe calls it made, the log line of the except clause it *)
(* went through, and the exception that leaves the handler ("none" when     *)
(* every exception was caught inside).                                      *)

Put(d, k, v) == [x \in DOMAIN d \cup {k} |-> IF x = k THEN v ELSE d[x]]

Result(zs, gs, n, lg, ex) ==
    [zones |-> zs, groups |-> gs, notify |-> n, log |-> lg, exc |-> ex]

(* zone_update with the mute payload written to the source field *)
zone_update_wrong_field(rec, attribute, payload) ==
    IF attribute = "name" THEN [ok |-> TRUE, rec |-> [rec EXCEPT !.name = payload]]
    ELSE IF attribute = "volume" THEN
        IF int(payload).ok
        THEN [ok |-> TRUE, rec |-> [rec EXCEPT !.volume = int(payload).val]]
        ELSE [ok |-> FALSE, rec |-> rec]
    ELSE IF attribute = "mute" THEN [ok |-> TRUE, rec |-> [rec EXCEPT !.source = payload]]
    ELSE IF attribute = "source" THEN [ok |-> TRUE, rec |-> [rec EXCEPT !.source = payload]]
    ELSE IF attribute = "connected" THEN [ok |-> TRUE, rec |-> [rec EXCEPT !.connected = payload]]
    ELSE [ok |-> TRUE, rec |-> rec]

(* zone_update with a volume that fails to parse reset to 0 *)
zone_update_reset_volume(rec, attribute, payload) ==
    IF attribute = "name" THEN [ok |-> TRUE, rec |-> [rec EXCEPT !.name = payload]]
    ELSE IF attribute = "volume" THEN
        IF int(payload).ok
        THEN [ok |-> TRUE, rec |-> [rec EXCEPT !.volume = int(payload).val]]
        ELSE [ok |-> FALSE, rec |-> [rec EXCEPT !.volume = 0]]
    ELSE IF attribute = "mute" THEN [ok |-> TRUE, rec |-> [rec EXCEPT !.mute = payload]]
    ELSE IF attribute = "source" THEN [ok |-> TRUE, rec |-> [rec EXCEPT !.source = payload]]
    ELSE IF attribute = "connected" THEN [ok |-> TRUE, rec |-> [rec EXCEPT !.connected = payload]]
    ELSE [ok |-> TRUE, rec |-> rec]

(* zone_update whose last branch takes every attribute left over *)
zone_update_else_connected(rec, attribute, payload) ==
    IF attribute = "name" THEN [ok |-> TRUE, rec |-> [rec EXCEPT !.name = payload]]
    ELSE IF attribute = "volume" THEN
        IF int(payload).ok
        THEN [ok |-> TRUE, rec |-> [rec EXCEPT !.volume = int(payload).val]]
        ELSE [ok |-> FALSE, rec |-> rec]
    ELSE IF attribute = "mute" THEN [ok |-> TRUE, rec |-> [rec EXCEPT !.mute = payload]]
    ELSE IF attribute = "source" THEN [ok |-> TRUE, rec |-> [rec EXCEPT !.source = payload]]
    ELSE [ok |-> TRUE, rec |-> [rec EXCEPT !.connected = payload]]

(* zone_update that keeps a source the record already has *)
zone_update_keep_source(rec, attribute, payload) ==
    IF attribute = "name" THEN [ok |-> TRUE, rec |-> [rec EXCEPT !.name = payload]]
    ELSE IF attribute = "volume" THEN
        IF int(payload).ok
        THEN [ok |-> TRUE, rec |-> [rec EXCEPT !.volume = int(payload).val]]
        ELSE [ok |-> FALSE, rec |-> rec]
    ELSE IF attribute = "mute" THEN [ok |-> TRUE, rec |-> [rec EXCEPT !.mute = payload]]
    ELSE IF attribute = "source" THEN
        [ok |-> TRUE, rec |-> IF rec.source = "" THEN [rec EXCEPT !.source = payload] ELSE rec]
    ELSE IF attribute = "connected" THEN [ok |-> TRUE, rec |-> [rec EXCEPT !.connected = payload]]
    ELSE [ok |-> TRUE, rec |-> rec]

(* lines 103-115: the attribute dispatch of the zones branch; ok is FALSE   *)
(* where int(payload) raised ValueError (lines 106-109).                    *)
zone_update(rec, attribute, payload) ==
    IF attribute = "name" THEN [ok |-> TRUE, rec |-> [rec EXCEPT !.name = payload]]
    ELSE IF attribute = "volume" THEN
        IF int(payload).ok
        THEN [ok |-> TRUE, rec |-> [rec EXCEPT !.volume = int(payload).val]]
        ELSE [ok |-> FALSE, rec |-> rec]
    ELSE IF attribute = "mute" THEN [ok |-> TRUE, rec |-> [rec EXCEPT !.mute = payload]]
    ELSE IF attribute = "source" THEN [ok |-> TRUE, rec |-> [rec EXCEPT !.source = payload]]
    ELSE IF attribute = "connected" THEN [ok |-> TRUE, rec |-> [rec EXCEPT !.connected = payload]]
    ELSE [ok |-> TRUE, rec |-> rec]

(* zone_branch that creates a record for a zone id it does not know *)
zone_branch_creating(zs, gs, parts, payload) ==
    IF ~int(parts[3]).ok
    THEN Result(zs, gs, 0, "Invalid zone ID in topic", "none")
    ELSE LET zone_id == int(parts[3]).val
             attribute == parts[4]
             zs1 == IF zone_id \in DOMAIN zs THEN zs
                    ELSE Put(zs, zone_id,
                             [zone_id |-> zone_id, name |-> "", volume |-> 0,
                              mute |-> "OFF", source |-> "", connected |-> "OFF",
                              available_sources |-> <<>>])
             u == zone_update(zs1[zone_id], attribute, payload)
         IN  Result([zs1 EXCEPT ![zone_id] = u.rec], gs, 1,
                    IF u.ok THEN "" ELSE "Invalid volume value", "none")

(* zone_branch that schedules the snapshot only when the record changed *)
zone_branch_notify_on_change(zs, gs, parts, payload) ==
    IF ~int(parts[3]).ok
    THEN Result(zs, gs, 0, "Invalid zone ID in topic", "none")
    ELSE LET zone_id == int(parts[3]).val
             attribute == parts[4]
         IN  IF zone_id \notin DOMAIN zs
             THEN Result(zs, gs, 0, "unknown zone, skipping", "none")
             ELSE LET u == zone_update(zs[zone_id], attribute, payload)
                  IN  Result([zs EXCEPT ![zone_id] = u.rec], gs,
                             IF u.rec = zs[zone_id] THEN 0 ELSE 1,
                             IF u.ok THEN "" ELSE "Invalid volume value", "none")

(* lines 91-123 *)
zone_branch(zs, gs, parts, payload) ==
    IF ~int(parts[3]).ok
    THEN Result(zs, gs, 0, "Invalid zone ID in topic", "none")
    ELSE LET zone_id == int(parts[3]).val
             attribute == parts[4]
         IN  IF zone_id \notin DOMAIN zs
             THEN Result(zs, gs, 0, "unknown zone, skipping", "none")
             ELSE LET u == zone_update(zs[zone_id], attribute, payload)
                  IN  Result([zs EXCEPT ![zone_id] = u.rec], gs, 1,
                             IF u.ok THEN "" ELSE "Invalid volume value", "none")

(* default_group with the zone's placeholder name and a silent volume *)
default_group_other(group_id) ==
    [group_id |-> group_id,
     name |-> "Zone " \o ToString(group_id + 1),
     volume |-> 0,
     mute |-> "OFF",
     source |-> "Off",
     description |-> "",
     zone_count |-> 0]

(* lines 132-140 *)
default_group(group_id) ==
    [group_id |-> group_id,
     name |-> "Group " \o ToString(group_id),
     volume |-> 50,
     mute |-> "OFF",
     source |-> "Off",
     description |-> "",
     zone_count |-> 0]

(* lines 143-160 *)
group_update(rec, attribute, payload) ==
    IF attribute = "name" THEN [ok |-> TRUE, rec |-> [rec EXCEPT !.name = payload]]
    ELSE IF attribute = "description" THEN [ok |-> TRUE, rec |-> [rec EXCEPT !.description = payload]]
    ELSE IF attribute = "volume" THEN
        IF int(payload).ok
        THEN [ok |-> TRUE, rec |-> [rec EXCEPT !.volume = int(payload).val]]
        ELSE [ok |-> FALSE, rec |-> rec]
    ELSE IF attribute = "mute" THEN [ok |-> TRUE, rec |-> [rec EXCEPT !.mute = payload]]
    ELSE IF attribute = "source" THEN [ok |-> TRUE, rec |-> [rec EXCEPT !.source = payload]]
    ELSE IF attribute = "zone_count" THEN
        IF int(payload).ok
        THEN [ok |-> TRUE, rec |-> [rec EXCEPT !.zone_count = int(payload).val]]
        ELSE [ok |-> FALSE, rec |-> rec]
    ELSE [ok |-> TRUE, rec |-> rec]

(* lines 125-168 *)
group_branch(zs, gs, parts, payload) ==
    IF ~int(parts[3]).ok
    THEN Result(zs, gs, 0, "Invalid group ID in topic", "none")
    ELSE LET group_id == int(parts[3]).val
             attribute == parts[4]
             gs1 == IF group_id \notin DOMAIN gs
                    THEN Put(gs, group_id, default_group(group_id))
                    ELSE gs
             u == group_update(gs1[group_id], attribute, payload)
         IN  Result(zs, [gs1 EXCEPT ![group_id] = u.rec], 1,
                    IF u.ok THEN ""
                    ELSE IF attribute = "volume" THEN "Invalid volume value"
                    ELSE "Invalid zone_count value", "none")

(* on_message_result that does not compare the first segment with the root *)
on_message_result_any_root(zs, gs, msg) ==
    LET d == decode(msg.payload)
        parts == msg.topic
    IN  IF ~d.ok
        THEN Result(zs, gs, 0, "Error processing MQTT message", "none")
        ELSE IF Len(parts) >= 4
        THEN IF parts[2] = "zones" THEN zone_branch(zs, gs, parts, d.val)
             ELSE IF parts[2] = "groups" THEN group_branch(zs, gs, parts, d.val)
             ELSE Result(zs, gs, 0, "Unknown MQTT topic type", "none")
        ELSE Result(zs, gs, 0, "", "none")

(* on_message_result with the payload decoded before the try statement *)
on_message_result_decode_outside_try(zs, gs, msg) ==
    LET d == decode(msg.payload)
        parts == msg.topic
    IN  IF ~d.ok
        THEN Result(zs, gs, 0, "", "UnicodeDecodeError")
        ELSE IF Len(parts) >= 4 /\ parts[1] = "ampbridge"
        THEN IF parts[2] = "zones" THEN zone_branch(zs, gs, parts, d.val)
             ELSE IF parts[2] = "groups" THEN group_branch(zs, gs, parts, d.val)
             ELSE Result(zs, gs, 0, "Unknown MQTT topic type", "none")
        ELSE Result(zs, gs, 0, "", "none")

(* on_message_result that takes topics of exactly four segments *)
on_message_result_exact_length(zs, gs, msg) ==
    LET d == decode(msg.payload)
        parts == msg.topic
    IN  IF ~d.ok
        THEN Result(zs, gs, 0, "Error processing MQTT message", "none")
        ELSE IF Len(parts) = 4 /\ parts[1] = "ampbridge"
        THEN IF parts[2] = "zones" THEN zone_branch(zs, gs, parts, d.val)
             ELSE IF parts[2] = "groups" THEN group_branch(zs, gs, parts, d.val)
             ELSE Result(zs, gs, 0, "Unknown MQTT topic type", "none")
        ELSE Result(zs, gs, 0, "", "none")

(* lines 79-177 *)
on_message_result(zs, gs, msg) ==
    LET d == decode(msg.payload)
        parts == msg.topic
    IN  IF ~d.ok
        THEN Result(zs, gs, 0, "Error processing MQTT message", "none")
        ELSE IF Len(parts) >= 4 /\ parts[1] = "ampbridge"
        THEN IF parts[2] = "zones" THEN zone_branch(zs, gs, parts, d.val)
             ELSE IF parts[2] = "groups" THEN group_branch(zs, gs, parts, d.val)
             ELSE Result(zs, gs, 0, "Unknown MQTT topic type", "none")
        ELSE Result(zs, gs, 0, "", "none")

-----------------------------------------------------------------------------
(* _discover_zones_via_api.  An API response is [status, success,           *)
(* has_zones, zones]: status is the HTTP status, or "error" when the        *)
(* request or the JSON decoding raised; has_zones tells whether the body    *)
(* has a "zones" key.  A zone entry carries the set of keys it has.         *)

RequiredKeys == {"id", "name", "volume", "muted", "source", "connected"}

ApiZone(id, name, volume, muted, source, conn, srcs, keys) ==
    [id |-> id, name |-> name, volume |-> volume, muted |-> muted,
     source |-> source, connected |-> conn, available_sources |-> srcs,
     keys |-> keys]

Kitchen == ApiZone(0, "Kitchen", 30, TRUE, "Echo", FALSE,
                   <<"Echo", "CustomName", "TV">>,
                   RequiredKeys \cup {"available_sources"})

KitchenBare == ApiZone(0, "Kitchen", 30, TRUE, "Echo", FALSE, <<>>, RequiredKeys)

Patio == ApiZone(2, "Patio", 0, FALSE, "Off", TRUE,
                 <<"TV", "Off", "CustomName">>,
                 RequiredKeys \cup {"available_sources"})

(* An entry without the key "name" *)
PatioNoName == ApiZone(2, "", 0, FALSE, "Off", TRUE, <<>>, RequiredKeys \ {"name"})

ApiResponse(status, success, has_zones, zs) ==
    [status |-> status, success |-> success, has_zones |-> has_zones, zones |-> zs]

ApiResponses ==
    { ApiResponse("error", FALSE, FALSE, <<>>),
      ApiResponse("500", TRUE, TRUE, <<Kitchen>>),
      ApiResponse("200", FALSE, TRUE, <<Kitchen>>),
      ApiResponse("200", TRUE, FALSE, <<>>),
      ApiResponse("200", TRUE, TRUE, <<Kitchen>>),
      ApiResponse("200", TRUE, TRUE, <<KitchenBare, Patio>>),
      ApiResponse("200", TRUE, TRUE, <<Kitchen, PatioNoName>>) }

(* zone_record with the connected text taken from the muted flag *)
zone_record_connected_from_muted(zone_data) ==
    [zone_id |-> zone_data.id,
     name |-> zone_data.name,
     volume |-> zone_data.volume,
     mute |-> IF zone_data.muted THEN "ON" ELSE "OFF",
     source |-> zone_data.source,
     connected |-> IF zone_data.muted THEN "ON" ELSE "OFF",
     available_sources |-> IF "available_sources" \in zone_data.keys
                           THEN zone_data.available_sources ELSE <<>>]

(* lines 267-275 *)
zone_record(zone_data) ==
    [zone_id |-> zone_data.id,
     name |-> zone_data.name,
     volume |-> zone_data.volume,
     mute |-> IF zone_data.muted THEN "ON" ELSE "OFF",
     source |-> zone_data.source,
     connected |-> IF zone_data.connected THEN "ON" ELSE "OFF",
     available_sources |-> IF "available_sources" \in zone_data.keys
                           THEN zone_data.available_sources ELSE <<>>]

(* lines 265-275: the loop over data["zones"]; ok is FALSE where an entry   *)
(* lacks a required key (KeyError), which ends the loop.                    *)
RECURSIVE store_zones(_, _, _, _)
store_zones(zs, order, entries, i) ==
    IF i > Len(entries)
    THEN [zones |-> zs, order |-> order, ok |-> TRUE, log |-> ""]
    ELSE IF ~(RequiredKeys \subseteq entries[i].keys)
    THEN [zones |-> zs, order |-> order, ok |-> FALSE,
          log |-> "Failed to discover zones via API"]
    ELSE store_zones(Put(zs, entries[i].id, zone_record(entries[i])),
                     IF entries[i].id \in DOMAIN zs THEN order
                     ELSE Append(order, entries[i].id),
                     entries, i + 1)

(* lines 254-284 *)
discover_zones_result(zs, order, resp) ==
    IF resp.status = "error"
    THEN [zones |-> zs, order |-> order, ok |-> FALSE,
          log |-> "Failed to discover zones via API"]
    ELSE IF resp.status # "200"
    THEN [zones |-> zs, order |-> order, ok |-> FALSE,
          log |-> "API request failed with status"]
    ELSE IF resp.success /\ resp.has_zones
    THEN store_zones(zs, order, resp.zones, 1)
    ELSE [zones |-> zs, order |-> order, ok |-> FALSE,
          log |-> "API returned unsuccessful response"]

-----------------------------------------------------------------------------
(* _map_source_name, lines 222-238 *)

source_mapping ==
    [k \in {"Off", "Echo", "Server", "TV", "Bluetooth", "Aux", "CD", "Tuner", "Phono"} |->
        CASE k = "Off" -> "Off"
          [] k = "Echo" -> "Source 1"
          [] k = "Server" -> "Source 2"
          [] k = "TV" -> "Source 3"
          [] k = "Bluetooth" -> "Source 4"
          [] k = "Aux" -> "Source 5"
          [] k = "CD" -> "Source 6"
          [] k = "Tuner" -> "Source 7"
          [] k = "Phono" -> "Source 8"]

(* The canonical source order of the specification: the first non-empty    *)
(* available_sources list among the records, in insertion order.            *)
CanonicalSources ==
    LET idx == {i \in 1..Len(zone_order) :
                    zones[zone_order[i]].available_sources # <<>>}
    IN  IF idx = {} THEN <<>>
        ELSE zones[zone_order[CHOOSE i \in idx : \A j \in idx : i <= j]].available_sources

Occurs(seq, v) == \E i \in 1..Len(seq) : seq[i] = v

IndexOf(seq, v) == CHOOSE i \in 1..Len(seq) : seq[i] = v /\ \A j \in 1..(i - 1) : seq[j] # v

Wire(i) == "Source " \o ToString(i)

(* _map_source_name with a lookup by position for names the table lacks *)
map_source_name_positional(source_name) ==
    IF source_name \in DOMAIN source_mapping
    THEN source_mapping[source_name]
    ELSE IF Occurs(CanonicalSources, source_name)
    THEN Wire(IndexOf(CanonicalSources, source_name))
    ELSE source_name

(* _map_source_name with the lookup by position tried before the table *)
map_source_name_sources_first(source_name) ==
    IF source_name = "Off" THEN "Off"
    ELSE IF Occurs(CanonicalSources, source_name)
    THEN Wire(IndexOf(CanonicalSources, source_name))
    ELSE IF source_name \in DOMAIN source_mapping
    THEN source_mapping[source_name]
    ELSE source_name

(* _map_source_name whose table has no entry for "Off" *)
map_source_name_no_off(source_name) ==
    IF source_name \in DOMAIN source_mapping \ {"Off"}
    THEN source_mapping[source_name]
    ELSE IF Occurs(CanonicalSources, source_name)
    THEN Wire(IndexOf(CanonicalSources, source_name))
    ELSE source_name

(* _map_source_name that falls back to "Off" for a name it does not know *)
map_source_name_default_off(source_name) ==
    IF source_name \in DOMAIN source_mapping
    THEN source_mapping[source_name]
    ELSE "Off"

(* _map_source_name over a table that also holds the reverse entries *)
map_source_name_two_way(source_name) ==
    IF source_name \in DOMAIN source_mapping
    THEN source_mapping[source_name]
    ELSE IF \E k \in DOMAIN source_mapping : source_mapping[k] = source_name
    THEN CHOOSE k \in DOMAIN source_mapping : source_mapping[k] = source_name
    ELSE source_name

map_source_name(source_name) ==
    IF source_name \in DOMAIN source_mapping
    THEN source_mapping[source_name]
    ELSE source_name

-----------------------------------------------------------------------------
(* get_available_sources, lines 240-247.  sorted() orders str values by     *)
(* their code points, the shorter of two texts first when it is a prefix    *)
(* of the other.                                                            *)

(* The code points of the source names the API responses list *)
code_points ==
    [n \in {"Echo", "CustomName", "TV", "Off"} |->
        CASE n = "Echo" -> <<69, 99, 104, 111>>
          [] n = "CustomName" -> <<67, 117, 115, 116, 111, 109, 78, 97, 109, 101>>
          [] n = "TV" -> <<84, 86>>
          [] n = "Off" -> <<79, 102, 102>>]

str_lt(a, b) ==
    LET x == code_points[a]
        y == code_points[b]
    IN  \E k \in 1..(Len(x) + 1) :
            /\ k <= Len(y)
            /\ \A i \in 1..(k - 1) : x[i] = y[i]
            /\ (k <= Len(x) => x[k] < y[k])

RECURSIVE sorted(_)
sorted(S) ==
    IF S = {} THEN <<>>
    ELSE LET first == CHOOSE x \in S : \A y \in S \ {x} : str_lt(x, y)
         IN  <<first>> \o sorted(S \ {first})

(* get_available_sources that prefers the order of the first list it finds *)
get_available_sources_canonical ==
    IF CanonicalSources # <<>> THEN CanonicalSources
    ELSE sorted(UNION {{zones[z].available_sources[i] :
                            i \in 1..Len(zones[z].available_sources)} :
                       z \in DOMAIN zones})

get_available_sources ==
    sorted(UNION {{zones[z].available_sources[i] :
                       i \in 1..Len(zones[z].available_sources)} :
                  z \in DOMAIN zones})

-----------------------------------------------------------------------------
(* Command inputs *)

SourceValues == {"Off", "TV", "CustomName", "Source 5"}

Commands == {<<"source", v>> : v \in SourceValues}
                \cup {<<"volume", "42">>, <<"mute", "ON">>}

GroupCommands == {<<"source", "CustomName">>, <<"mute", "ON">>, <<"volume", "42">>}

CmdZoneIds == {0}

CmdGroupIds == {1}

-----------------------------------------------------------------------------
(* State after __init__ (lines 23-39): coordinator.data is None, shown as   *)
(* data.set = FALSE.  data.keys is the key set of the dict last passed to   *)
(* async_set_updated_data; that dict is self.zones.copy(), a shallow copy,  *)
(* so the record it holds under key z is the object self.zones[z].          *)

(* No platform is being set up *)
SetupIdle == [platform |-> "none", pc |-> "idle", polls |-> 0,
              entities |-> 0, raised |-> "none"]

Init ==
    /\ pc = "init"
    /\ zones = <<>>
    /\ zone_order = <<>>
    /\ groups = <<>>
    /\ mqtt_client = "None"
    /\ connected = FALSE
    /\ subscriptions = {}
    /\ loop_queue = 0
    /\ data = [set |-> FALSE, keys |-> {}]
    /\ jobs = {}
    /\ published = <<>>
    /\ notified = 0
    /\ raised = "none"
    /\ log = ""
    /\ n_ops = 0
    /\ setup = SetupIdle

(* discover_zones_via_api run again once the MQTT loop is running *)
discover_zones_via_api_late(resp) ==
    /\ pc \in {"init", "running"}
    /\ LET r == discover_zones_result(zones, zone_order, resp)
       IN  /\ zones' = r.zones
           /\ zone_order' = r.order
           /\ IF r.ok
              THEN /\ data' = [set |-> TRUE, keys |-> DOMAIN r.zones]
                   /\ notified' = notified + 1
              ELSE UNCHANGED <<data, notified>>
           /\ log' = r.log
    /\ pc' = IF pc = "init" THEN "zones_discovered" ELSE pc
    /\ raised' = "none"
    /\ UNCHANGED <<groups, mqtt_client, connected, subscriptions, loop_queue,
                   jobs, published, n_ops>>
    /\ UNCHANGED setup

(* async_start, line 44 *)
discover_zones_via_api(resp) ==
    /\ pc = "init"
    /\ LET r == discover_zones_result(zones, zone_order, resp)
       IN  /\ zones' = r.zones
           /\ zone_order' = r.order
           /\ IF r.ok
              THEN /\ data' = [set |-> TRUE, keys |-> DOMAIN r.zones]
                   /\ notified' = notified + 1
              ELSE UNCHANGED <<data, notified>>
           /\ log' = r.log
    /\ pc' = "zones_discovered"
    /\ raised' = "none"
    /\ UNCHANGED <<groups, mqtt_client, connected, subscriptions, loop_queue,
                   jobs, published, n_ops>>
    /\ UNCHANGED setup

(* async_start, line 45; lines 286-295 *)
discover_groups_via_api ==
    /\ pc = "zones_discovered"
    /\ groups' = <<>>
    /\ pc' = "groups_discovered"
    /\ raised' = "none"
    /\ log' = ""
    /\ UNCHANGED <<zones, zone_order, mqtt_client, connected, subscriptions,
                   loop_queue, data, jobs, published, notified, n_ops>>
    /\ UNCHANGED setup

(* async_start, line 48; lines 50-65.  ok is FALSE where connect() raises. *)
start_mqtt_client(ok) ==
    /\ pc = "groups_discovered"
    /\ mqtt_client' = "client"
    /\ pc' = IF ok THEN "running" ELSE "start_failed"
    /\ raised' = IF ok THEN "none" ELSE "UpdateFailed"
    /\ log' = IF ok THEN "" ELSE "Failed to connect to MQTT broker"
    /\ UNCHANGED <<zones, zone_order, groups, connected, subscriptions,
                   loop_queue, data, jobs, published, notified, n_ops>>
    /\ UNCHANGED setup

(* The network loop runs from loop_start() to loop_stop(). *)
LoopRunning == pc = "running" /\ mqtt_client = "client"

(* on_connect that sets the flag whatever the result code is *)
on_connect_ignoring_rc(rc) ==
    /\ LoopRunning
    /\ connected' = TRUE
    /\ IF rc = 0
       THEN /\ subscriptions' = {MQTT_BASE_TOPIC \o <<"#">>}
            /\ log' = ""
       ELSE /\ subscriptions' = {}
            /\ log' = "Failed to connect to MQTT broker"
    /\ raised' = "none"
    /\ UNCHANGED <<pc, zones, zone_order, groups, mqtt_client, loop_queue,
                   data, jobs, published, notified, n_ops>>
    /\ UNCHANGED setup

(* on_connect that sets the flag and leaves the subscriptions to the       *)
(* session the broker keeps                                                 *)
on_connect_without_subscribe(rc) ==
    /\ LoopRunning
    /\ IF rc = 0
       THEN /\ connected' = TRUE
            /\ subscriptions' = subscriptions
            /\ log' = ""
       ELSE /\ connected' = FALSE
            /\ subscriptions' = {}
            /\ log' = "Failed to connect to MQTT broker"
    /\ raised' = "none"
    /\ UNCHANGED <<pc, zones, zone_order, groups, mqtt_client, loop_queue,
                   data, jobs, published, notified, n_ops>>
    /\ UNCHANGED setup

(* lines 67-77 *)
on_connect(rc) ==
    /\ LoopRunning
    /\ IF rc = 0
       THEN /\ connected' = TRUE
            /\ subscriptions' = {MQTT_BASE_TOPIC \o <<"#">>}
            /\ log' = ""
       ELSE /\ connected' = FALSE
            /\ subscriptions' = {}
            /\ log' = "Failed to connect to MQTT broker"
    /\ raised' = "none"
    /\ UNCHANGED <<pc, zones, zone_order, groups, mqtt_client, loop_queue,
                   data, jobs, published, notified, n_ops>>
    /\ UNCHANGED setup

(* on_disconnect that forgets the groups learned over the lost connection *)
on_disconnect_clearing ==
    /\ LoopRunning
    /\ connected' = FALSE
    /\ subscriptions' = {}
    /\ groups' = <<>>
    /\ raised' = "none"
    /\ log' = "Disconnected from MQTT broker"
    /\ UNCHANGED <<pc, zones, zone_order, mqtt_client, loop_queue,
                   data, jobs, published, notified, n_ops>>
    /\ UNCHANGED setup

(* lines 179-182 *)
on_disconnect ==
    /\ LoopRunning
    /\ connected' = FALSE
    /\ subscriptions' = {}
    /\ raised' = "none"
    /\ log' = "Disconnected from MQTT broker"
    /\ UNCHANGED <<pc, zones, zone_order, groups, mqtt_client, loop_queue,
                   data, jobs, published, notified, n_ops>>
    /\ UNCHANGED setup

(* lines 72-74: what client.subscribe(filter) asks of the broker.  A filter *)
(* matches a topic level by level; "+" stands for one level and a final "#" *)
(* for every remaining level, none included.                                *)
Matches(filter, topic) ==
    IF filter # <<>> /\ filter[Len(filter)] = "#"
    THEN /\ Len(topic) >= Len(filter) - 1
         /\ \A i \in 1..(Len(filter) - 1) : filter[i] \in {"+", topic[i]}
    ELSE /\ Len(topic) = Len(filter)
         /\ \A i \in 1..Len(filter) : filter[i] \in {"+", topic[i]}

(* The broker sends the client the messages a filter of its matches. *)
Delivered(topic) == \E filter \in subscriptions : Matches(filter, topic)

(* lines 79-177 *)
on_message(msg) ==
    /\ LoopRunning
    /\ connected
    /\ n_ops < MaxOps
    /\ n_ops' = n_ops + 1
    /\ LET r == on_message_result(zones, groups, msg)
       IN  /\ zones' = r.zones
           /\ groups' = r.groups
           /\ loop_queue' = loop_queue + r.notify
           /\ notified' = notified + r.notify
           /\ raised' = r.exc
           /\ log' = r.log
    /\ UNCHANGED <<pc, zone_order, mqtt_client, connected, subscriptions,
                   data, jobs, published>>
    /\ UNCHANGED setup

(* lines 118-120 and 163-165: the scheduled lambda runs on the event loop *)
run_callback ==
    /\ loop_queue > 0
    /\ loop_queue' = loop_queue - 1
    /\ data' = [set |-> TRUE, keys |-> DOMAIN zones]
    /\ log' = ""
    /\ UNCHANGED <<pc, zones, zone_order, groups, mqtt_client, connected,
                   subscriptions, jobs, published, notified, raised, n_ops>>
    /\ UNCHANGED setup

(* The broker sends a message the client published back to the client when *)
(* a filter of the client matches its topic (lines 72-74 and 198-199); the  *)
(* handler runs on it as on any other message.                              *)
broker_echo(i) ==
    /\ i \in 1..Len(published)
    /\ Delivered(published[i].topic)
    /\ on_message([topic |-> published[i].topic,
                   payload |-> published[i].payload])

(* The closure _publish holds topic and mapped_value; kind, id, command,    *)
(* value and ticket recall the call that made it (ticket tells two equal    *)
(* calls apart).                                                            *)
Job(base, id, command, value, mapped_value, ticket) ==
    [topic |-> base \o <<ToString(id), command, "set">>,
     payload |-> mapped_value,
     kind |-> base[2], id |-> id, command |-> command, value |-> value,
     ticket |-> ticket]

(* Jobs are made only while mqtt_client is set and fail only after it was   *)
(* cleared, so the number of jobs made so far is:                           *)
NextTicket == Cardinality(jobs) + Len(published)

(* async_send_command that looks at the client handle only *)
async_send_command_unchecked(zone_id, command, value) ==
    /\ pc \in {"running", "stopped"}
    /\ n_ops < MaxOps
    /\ n_ops' = n_ops + 1
    /\ IF mqtt_client = "None"
       THEN /\ log' = "MQTT client not connected"
            /\ UNCHANGED jobs
       ELSE LET mapped_value == IF command = "source"
                                THEN map_source_name(value) ELSE value
            IN  /\ log' = ""
                /\ jobs' = jobs \cup
                     {Job(MQTT_BASE_TOPIC, zone_id, command, value, mapped_value, NextTicket)}
    /\ raised' = "none"
    /\ UNCHANGED <<pc, zones, zone_order, groups, mqtt_client, connected,
                   subscriptions, loop_queue, data, published, notified>>
    /\ UNCHANGED setup

(* async_send_command that also writes a source value into the zone        *)
(* record, on the event loop                                                *)
async_send_command_optimistic(zone_id, command, value) ==
    /\ pc \in {"running", "stopped"}
    /\ n_ops < MaxOps
    /\ n_ops' = n_ops + 1
    /\ IF mqtt_client = "None" \/ ~connected
       THEN /\ log' = "MQTT client not connected"
            /\ UNCHANGED <<jobs, zones>>
       ELSE LET mapped_value == IF command = "source"
                                THEN map_source_name(value) ELSE value
            IN  /\ log' = ""
                /\ jobs' = jobs \cup
                     {Job(MQTT_BASE_TOPIC, zone_id, command, value, mapped_value, NextTicket)}
                /\ zones' = IF zone_id \in DOMAIN zones /\ command = "source"
                            THEN [zones EXCEPT ![zone_id].source = value]
                            ELSE zones
    /\ raised' = "none"
    /\ UNCHANGED <<pc, zone_order, groups, mqtt_client, connected,
                   subscriptions, loop_queue, data, published, notified>>
    /\ UNCHANGED setup

(* lines 184-201, up to the hand-over of _publish to the executor *)
async_send_command(zone_id, command, value) ==
    /\ pc \in {"running", "stopped"}
    /\ n_ops < MaxOps
    /\ n_ops' = n_ops + 1
    /\ IF mqtt_client = "None" \/ ~connected
       THEN /\ log' = "MQTT client not connected"
            /\ UNCHANGED jobs
       ELSE LET mapped_value == IF command = "source"
                                THEN map_source_name(value) ELSE value
            IN  /\ log' = ""
                /\ jobs' = jobs \cup
                     {Job(MQTT_BASE_TOPIC, zone_id, command, value, mapped_value, NextTicket)}
    /\ raised' = "none"
    /\ UNCHANGED <<pc, zones, zone_order, groups, mqtt_client, connected,
                   subscriptions, loop_queue, data, published, notified>>
    /\ UNCHANGED setup

(* async_send_group_command that builds its topic from the zones base topic *)
async_send_group_command_zone_topic(group_id, command, value) ==
    /\ pc \in {"running", "stopped"}
    /\ n_ops < MaxOps
    /\ n_ops' = n_ops + 1
    /\ IF mqtt_client = "None" \/ ~connected
       THEN /\ log' = "MQTT client not connected"
            /\ UNCHANGED jobs
       ELSE LET mapped_value == IF command = "source"
                                THEN map_source_name(value) ELSE value
            IN  /\ log' = ""
                /\ jobs' = jobs \cup
                     {Job(MQTT_BASE_TOPIC, group_id, command, value,
                          mapped_value, NextTicket)}
    /\ raised' = "none"
    /\ UNCHANGED <<pc, zones, zone_order, groups, mqtt_client, connected,
                   subscriptions, loop_queue, data, published, notified>>
    /\ UNCHANGED setup

(* async_send_group_command that also writes a mute value into the record *)
(* of the group                                                            *)
async_send_group_command_optimistic(group_id, command, value) ==
    /\ pc \in {"running", "stopped"}
    /\ n_ops < MaxOps
    /\ n_ops' = n_ops + 1
    /\ IF mqtt_client = "None" \/ ~connected
       THEN /\ log' = "MQTT client not connected"
            /\ UNCHANGED <<jobs, groups>>
       ELSE LET mapped_value == IF command = "source"
                                THEN map_source_name(value) ELSE value
            IN  /\ log' = ""
                /\ jobs' = jobs \cup
                     {Job(MQTT_GROUPS_BASE_TOPIC, group_id, command, value,
                          mapped_value, NextTicket)}
                /\ groups' = IF group_id \in DOMAIN groups /\ command = "mute"
                             THEN [groups EXCEPT ![group_id].mute = value]
                             ELSE groups
    /\ raised' = "none"
    /\ UNCHANGED <<pc, zones, zone_order, mqtt_client, connected,
                   subscriptions, loop_queue, data, published, notified>>
    /\ UNCHANGED setup

(* lines 203-220, up to the hand-over of _publish to the executor *)
async_send_group_command(group_id, command, value) ==
    /\ pc \in {"running", "stopped"}
    /\ n_ops < MaxOps
    /\ n_ops' = n_ops + 1
    /\ IF mqtt_client = "None" \/ ~connected
       THEN /\ log' = "MQTT client not connected"
            /\ UNCHANGED jobs
       ELSE LET mapped_value == IF command = "source"
                                THEN map_source_name(value) ELSE value
            IN  /\ log' = ""
                /\ jobs' = jobs \cup
                     {Job(MQTT_GROUPS_BASE_TOPIC, group_id, command, value,
                          mapped_value, NextTicket)}
    /\ raised' = "none"
    /\ UNCHANGED <<pc, zones, zone_order, groups, mqtt_client, connected,
                   subscriptions, loop_queue, data, published, notified>>
    /\ UNCHANGED setup

(* run_publish followed by an optimistic write of the human value to the    *)
(* record's source field and a snapshot                                     *)
run_publish_optimistic(job) ==
    /\ job \in jobs
    /\ jobs' = jobs \ {job}
    /\ IF mqtt_client = "None"
       THEN /\ raised' = "AttributeError"
            /\ UNCHANGED <<published, zones, groups, data, notified>>
       ELSE /\ raised' = "none"
            /\ published' = Append(published, job)
            /\ IF job.command = "source"
               THEN /\ zones' = IF job.kind = "zones" /\ job.id \in DOMAIN zones
                                 THEN [zones EXCEPT ![job.id].source = job.value]
                                 ELSE zones
                    /\ groups' = IF job.kind = "groups" /\ job.id \in DOMAIN groups
                                  THEN [groups EXCEPT ![job.id].source = job.value]
                                  ELSE groups
                    /\ data' = [set |-> TRUE, keys |-> DOMAIN zones]
                    /\ notified' = notified + 1
               ELSE UNCHANGED <<zones, groups, data, notified>>
    /\ log' = ""
    /\ UNCHANGED <<pc, zone_order, mqtt_client, connected, subscriptions,
                   loop_queue, n_ops>>
    /\ UNCHANGED setup

(* lines 198-199 and 217-218: _publish runs on an executor thread and reads *)
(* self.mqtt_client when it runs; None has no attribute publish.            *)
run_publish(job) ==
    /\ job \in jobs
    /\ jobs' = jobs \ {job}
    /\ IF mqtt_client = "None"
       THEN /\ raised' = "AttributeError"
            /\ UNCHANGED published
       ELSE /\ raised' = "none"
            /\ published' = Append(published, job)
    /\ log' = ""
    /\ UNCHANGED <<pc, zones, zone_order, groups, mqtt_client, connected,
                   subscriptions, loop_queue, data, notified, n_ops>>
    /\ UNCHANGED setup

(* lines 297-307.  cb tells whether disconnect() invokes _on_disconnect. *)
async_stop(cb) ==
    /\ pc = "running"
    /\ pc' = "stopped"
    /\ IF mqtt_client = "client"
       THEN /\ mqtt_client' = "None"
            /\ subscriptions' = {}
            /\ connected' = IF cb THEN FALSE ELSE connected
       ELSE UNCHANGED <<mqtt_client, subscriptions, connected>>
    /\ raised' = "none"
    /\ log' = ""
    /\ UNCHANGED <<zones, zone_order, groups, loop_queue, data, jobs,
                   published, notified, n_ops>>
    /\ UNCHANGED setup

(* What an observer reads from coordinator.data: the dict handed over by    *)
(* the last async_set_updated_data call.  The dict is self.zones.copy()     *)
(* (lines 119, 164, 278): a new dict over the same record objects, so the   *)
(* record under key z is self.zones[z] as it is now.  Records are replaced  *)
(* only by discovery (line 267), which runs before the first hand-over.     *)
coordinator_data ==
    IF data.set THEN [z \in data.keys |-> zones[z]] ELSE <<>>

-----------------------------------------------------------------------------
(* Entity properties read by Home Assistant: select.py and sensor.py.  A    *)
(* property returns None or a value; raised is the exception that leaves    *)
(* it ("none" when it returns).                                             *)

None == [is_none |-> TRUE, val |-> "", raised |-> "none"]

Value(v) == [is_none |-> FALSE, val |-> v, raised |-> "none"]

Raises(exc) == [is_none |-> TRUE, val |-> "", raised |-> exc]

(* select.py lines 83-88 *)
options == <<"Off">> \o get_available_sources

(* current_option that returns the stored source whatever the options are *)
current_option_unchecked(zone_id) ==
    IF ~data.set THEN Raises("AttributeError")
    ELSE IF zone_id \in DOMAIN coordinator_data
    THEN Value(coordinator_data[zone_id].source)
    ELSE None

(* select.py lines 90-98: coordinator.data.get(zone_id) on the snapshot     *)
(* (None has no attribute get); a zone record is a non-empty dict.          *)
current_option(zone_id) ==
    IF ~data.set THEN Raises("AttributeError")
    ELSE IF zone_id \in DOMAIN coordinator_data
    THEN LET current_source == coordinator_data[zone_id].source
         IN  IF \E i \in 1..Len(options) : options[i] = current_source
             THEN Value(current_source)
             ELSE None
    ELSE None

(* A dict key as Python compares it: an int and a str are never equal. *)
IntKey(n) == [type |-> "int", val |-> n]

StrKey(text) == [type |-> "str", val |-> text]

(* coordinator.data.get(key): the keys of the snapshot are the int zone ids *)
(* (coordinator.py lines 94 and 266-267); None has no attribute get.        *)
data_get(key) ==
    IF ~data.set THEN Raises("AttributeError")
    ELSE IF key.type = "int" /\ key.val \in DOMAIN coordinator_data
    THEN Value(coordinator_data[key.val])
    ELSE None

(* sensor.py lines 28-39: sensors are made for range(7) *)
SensorZoneIds == 0..6

(* sensor.py lines 62-66: AmpBridgeVolumeSensor.native_value *)
volume_native_value(zone_id) ==
    data_get(StrKey("zone_" \o ToString(zone_id) \o "_volume"))

(* sensor.py lines 87-91: AmpBridgeSourceSensor.native_value *)
source_native_value(zone_id) ==
    data_get(StrKey("zone_" \o ToString(zone_id) \o "_source"))

-----------------------------------------------------------------------------
(* Platform setup: async_setup_entry of number.py (zones; switch.py,        *)
(* select.py and binary_sensor.py have the same body) and of                *)
(* group_number.py (groups; group_select.py and group_switch.py have the    *)
(* same body).                                                              *)

(* number.py line 32, group_number.py line 32: for _ in range(50) *)
PollCount == 50

Platforms == {"number", "group_number"}

(* number.py line 33: bool(coordinator.data); None and {} are false *)
data_truthy == data.set /\ data.keys # {}

(* group_number.py line 33: hasattr(coordinator, 'groups') and coordinator.groups *)
groups_truthy == groups # <<>>

(* The integration sets its platforms up once async_start has returned     *)
(* (__init__.py lines 27-29); lines 26-29 of the platform.                  *)
async_setup_entry(platform) ==
    /\ pc = "running"
    /\ setup.pc = "idle"
    /\ setup' = [SetupIdle EXCEPT !.platform = platform, !.pc = "polling"]
    /\ UNCHANGED <<pc, zones, zone_order, groups, mqtt_client, connected,
                   subscriptions, loop_queue, data, jobs, published, notified,
                   raised, log, n_ops>>

(* lines 32-35: one iteration of the loop (a look at the data, then break   *)
(* or sleep), or the end of the loop after PollCount iterations; other      *)
(* steps run during the sleep.                                              *)
poll_data ==
    /\ setup.pc = "polling"
    /\ setup' = IF setup.polls = PollCount
                THEN [setup EXCEPT !.pc = "create"]
                ELSE IF (IF setup.platform = "number"
                         THEN data_truthy ELSE groups_truthy)
                THEN [setup EXCEPT !.polls = @ + 1, !.pc = "create"]
                ELSE [setup EXCEPT !.polls = @ + 1]
    /\ UNCHANGED <<pc, zones, zone_order, groups, mqtt_client, connected,
                   subscriptions, loop_queue, data, jobs, published, notified,
                   raised, log, n_ops>>

(* lines 38-43: one entity per item of coordinator.data.items() (number.py) *)
(* or coordinator.groups.items() (group_number.py); None has no attribute   *)
(* items.                                                                   *)
async_add_entities ==
    /\ setup.pc = "create"
    /\ setup' = IF setup.platform = "number"
                THEN IF ~data.set
                     THEN [setup EXCEPT !.pc = "done", !.raised = "AttributeError"]
                     ELSE [setup EXCEPT !.pc = "done",
                                        !.entities = Cardinality(DOMAIN coordinator_data)]
                ELSE [setup EXCEPT !.pc = "done",
                                   !.entities = Cardinality(DOMAIN groups)]
    /\ UNCHANGED <<pc, zones, zone_order, groups, mqtt_client, connected,
                   subscriptions, loop_queue, data, jobs, published, notified,
                   raised, log, n_ops>>

(* The start of the integration followed by the setup of one platform *)
NextSetup ==
    \/ \E resp \in ApiResponses : discover_zones_via_api(resp)
    \/ discover_groups_via_api
    \/ \E ok \in BOOLEAN : start_mqtt_client(ok)
    \/ \E rc \in {0, 5} : on_connect(rc)
    \/ \E msg \in Messages : on_message(msg)
    \/ run_callback
    \/ \E platform \in Platforms : async_setup_entry(platform)
    \/ poll_data
    \/ async_add_entities

SpecSetup == Init /\ [][NextSetup]_vars

-----------------------------------------------------------------------------
Next ==
    \/ \E resp \in ApiResponses : discover_zones_via_api(resp)
    \/ discover_groups_via_api
    \/ \E ok \in BOOLEAN : start_mqtt_client(ok)
    \/ \E rc \in {0, 5} : on_connect(rc)
    \/ on_disconnect
    \/ \E msg \in Messages : on_message(msg)
    \/ \E i \in 1..Len(published) : broker_echo(i)
    \/ run_callback
    \/ \E z \in CmdZoneIds, c \in Commands : async_send_command(z, c[1], c[2])
    \/ \E g \in CmdGroupIds, c \in GroupCommands : async_send_group_command(g, c[1], c[2])
    \/ \E job \in jobs : run_publish(job)
    \/ \E cb \in BOOLEAN : async_stop(cb)

Spec == Init /\ [][Next]_vars

-----------------------------------------------------------------------------
(* Properties *)

ZoneAttributes == {"name", "volume", "mute", "source", "connected"}

GroupAttributes == {"name", "description", "volume", "mute", "source", "zone_count"}

IntAttributes == {"volume", "zone_count"}

(* The message is addressed to <root>/<kind>/<id>/<attr> with a decodable   *)
(* payload and an integer id.                                               *)
Addressed(msg, kind) ==
    /\ decode(msg.payload).ok
    /\ Len(msg.topic) = 4
    /\ msg.topic[1] = "ampbridge"
    /\ msg.topic[2] = kind
    /\ int(msg.topic[3]).ok

IdOf(msg) == int(msg.topic[3]).val

AttrOf(msg) == msg.topic[4]

ZoneMessages == {msg \in Messages : Addressed(msg, "zones")}

GroupMessages == {msg \in Messages : Addressed(msg, "groups")}

(* A step that handles one inbound message *)
MessageStep == LoopRunning /\ connected /\ n_ops' = n_ops + 1 /\ jobs' = jobs

(* The value the store holds for attribute a after payload p was accepted *)
Stored(a, p) == IF a \in IntAttributes THEN int(p).val ELSE p

(* C1: a message ampbridge/zones/z/a for a zone z of the store and a in    *)
(* {name, volume, mute, source, connected}, with an integer payload when a  *)
(* is volume, sets field a of zone z to the payload (int(p) for volume),    *)
(* leaves every other field, zone and group unchanged, and triggers exactly *)
(* one snapshot notification.                                               *)
C1_ZoneFieldUpdate ==
    [][MessageStep => \A msg \in ZoneMessages :
        ( /\ IdOf(msg) \in DOMAIN zones
          /\ AttrOf(msg) \in ZoneAttributes
          /\ (AttrOf(msg) = "volume" => int(msg.payload).ok)
          /\ on_message(msg) )
        => /\ zones' = [zones EXCEPT ![IdOf(msg)] =
                           [@ EXCEPT ![AttrOf(msg)] = Stored(AttrOf(msg), msg.payload)]]
           /\ groups' = groups
           /\ notified' = notified + 1
           /\ loop_queue' = loop_queue + 1]_vars

C1_Witness ==
    /\ 0 \in DOMAIN zones
    /\ 2 \in DOMAIN zones
    /\ zones[0].volume = 150
    /\ zones[0].mute = "TV"
    /\ zones[0].source = "Echo"
    /\ notified = 3

(* C2: a message for a zone id that discovery did not return creates no    *)
(* record, changes no record and triggers no notification; the set of zone  *)
(* ids never changes once discovery has returned.                           *)
C2_UnknownZoneIgnored ==
    [][ /\ (pc # "init" => DOMAIN zones' = DOMAIN zones)
        /\ MessageStep => \A msg \in ZoneMessages :
            ( /\ IdOf(msg) \notin DOMAIN zones
              /\ on_message(msg) )
            => UNCHANGED <<zones, zone_order, groups, notified, loop_queue, data>> ]_vars

C2_Witness ==
    /\ log = "unknown zone, skipping"
    /\ DOMAIN zones = {0, 2}
    /\ 1 \in DOMAIN groups
    /\ notified = 2

(* The defaults of a group record, as the specification lists them *)
C3_Defaults(g) ==
    [name |-> "Group " \o ToString(g), volume |-> 50, mute |-> "OFF",
     source |-> "Off", description |-> "", zone_count |-> 0]

(* C3: a message ampbridge/groups/g/<attr> for a group g that is not in the *)
(* store creates record g with the defaults and then applies the attribute: *)
(* afterwards every field but the addressed one has its default, the        *)
(* addressed one has the payload (when it is acceptable), and no zone       *)
(* record is created or changed.                                            *)
C3_GroupCreatedOnDemand ==
    [][MessageStep => \A msg \in GroupMessages :
        ( /\ IdOf(msg) \notin DOMAIN groups
          /\ on_message(msg) )
        => /\ DOMAIN groups' = DOMAIN groups \cup {IdOf(msg)}
           /\ \A f \in GroupAttributes :
                groups'[IdOf(msg)][f] =
                    IF f = AttrOf(msg) /\ (f \in IntAttributes => int(msg.payload).ok)
                    THEN Stored(f, msg.payload)
                    ELSE C3_Defaults(IdOf(msg))[f]
           /\ \A g \in DOMAIN groups : groups'[g] = groups[g]
           /\ zones' = zones]_vars

C3_Witness ==
    /\ n_ops = 1
    /\ DOMAIN groups = {1}
    /\ groups[1].name = "Group 1"
    /\ groups[1].volume = 50
    /\ groups[1].description = "TV"
    /\ 0 \in DOMAIN zones

(* C4: a volume payload (zone or group) or a group zone_count payload that  *)
(* is not an integer leaves that field and every field of every record of   *)
(* the store as it was (a group created by the message keeps the default in *)
(* that field), and the handler raises nothing to its caller.               *)
C4_BadIntegerIgnored ==
    [][MessageStep => \A msg \in ZoneMessages \cup GroupMessages :
        ( /\ \/ msg \in ZoneMessages /\ AttrOf(msg) = "volume"
             \/ msg \in GroupMessages /\ AttrOf(msg) \in IntAttributes
          /\ ~int(msg.payload).ok
          /\ on_message(msg) )
        => /\ zones' = zones
           /\ \A g \in DOMAIN groups : groups'[g] = groups[g]
           /\ \A g \in DOMAIN groups' \ DOMAIN groups :
                groups'[g][AttrOf(msg)] = C3_Defaults(g)[AttrOf(msg)]
           /\ raised' = "none"]_vars

C4_Witness ==
    /\ log = "Invalid volume value"
    /\ groups = <<>>
    /\ 0 \in DOMAIN zones
    /\ zones[0].volume = 30

Store == <<zones, zone_order, groups, notified, loop_queue, data>>

(* The record a source job is about, when the store has it *)
TargetKnown(job) ==
    \/ job.kind = "zones" /\ job.id \in DOMAIN zones
    \/ job.kind = "groups" /\ job.id \in DOMAIN groups

TargetSource(job, zs, gs) ==
    IF job.kind = "zones" THEN zs[job.id].source ELSE gs[job.id].source

Dropped ==
    /\ UNCHANGED <<zones, zone_order, groups, notified, loop_queue, data, jobs,
                   published, mqtt_client, connected, subscriptions, pc>>
    /\ raised' = "none"

(* C6: a zone or group command issued while the client handle is absent or *)
(* the connected flag is false publishes nothing, raises nothing, leaves    *)
(* the store unchanged and leaves nothing behind to publish later: every    *)
(* publish comes from a job, and a job is made only by a command that found *)
(* the client set and the flag true.                                        *)
C6_DroppedWhenNotConnected ==
    [][ /\ (n_ops' = n_ops + 1 /\ (mqtt_client = "None" \/ ~connected)) =>
            /\ \A z \in CmdZoneIds, c \in Commands :
                 async_send_command(z, c[1], c[2]) => Dropped
            /\ \A g \in CmdGroupIds, c \in GroupCommands :
                 async_send_group_command(g, c[1], c[2]) => Dropped
        /\ ~(jobs' \subseteq jobs) => (mqtt_client = "client" /\ connected)
        /\ published' # published =>
             \E job \in jobs : published' = Append(published, job) /\ jobs' = jobs \ {job}
      ]_vars

C6_Witness ==
    /\ log = "MQTT client not connected"
    /\ mqtt_client = "client"
    /\ ~connected
    /\ n_ops = 2
    /\ Len(published) = 1
    /\ jobs = {}

(* The source commands that passed the connection check, pending or published *)
SourceJobs ==
    {job \in jobs \cup {published[i] : i \in 1..Len(published)} : job.command = "source"}

(* The legacy table of the specification, in the order Source 1 .. Source 8 *)
LegacyKeys == <<"Echo", "Server", "TV", "Bluetooth", "Aux", "CD", "Tuner", "Phono">>

IsLegacy(v) == Occurs(LegacyKeys, v)

(* Every name some record lists in available_sources *)
ListedSources ==
    UNION {{zones[z].available_sources[i] : i \in 1..Len(zones[z].available_sources)} :
              z \in DOMAIN zones}

(* C7 as stated: a source value that is not "Off" and not a key of the     *)
(* legacy table, found at zero-based index i of the canonical               *)
(* available_sources order, is mapped to "Source i+1".                      *)
C7_PositionalLookup ==
    \A job \in SourceJobs :
        (job.value # "Off" /\ ~IsLegacy(job.value) /\ Occurs(CanonicalSources, job.value))
        => job.payload = Wire(IndexOf(CanonicalSources, job.value))

(* C7 amended: a source value that is not "Off" and not a key of the       *)
(* legacy table is mapped to itself also when the canonical                 *)
(* available_sources order lists it; with available_sources =               *)
(* ["Echo","CustomName","TV"], "CustomName" maps to "CustomName".           *)
C7_ListedNamePassesThrough ==
    /\ \A i \in 1..Len(CanonicalSources) :
         (CanonicalSources[i] # "Off" /\ ~IsLegacy(CanonicalSources[i]))
         => map_source_name(CanonicalSources[i]) = CanonicalSources[i]
    /\ \A job \in SourceJobs :
         (job.value # "Off" /\ ~IsLegacy(job.value) /\ Occurs(CanonicalSources, job.value))
         => job.payload = job.value

C7_Witness ==
    /\ CanonicalSources = <<"Echo", "CustomName", "TV">>
    /\ \E i \in 1..Len(published) :
         /\ published[i].command = "source"
         /\ published[i].value = "CustomName"
         /\ published[i].payload = "CustomName"

(* C8: every key of the legacy table (Echo, Server, TV, Bluetooth, Aux, CD, *)
(* Tuner, Phono) is mapped to its table value Source 1 .. Source 8,         *)
(* whatever the records list in available_sources.                          *)
C8_LegacyTableWins ==
    /\ \A i \in 1..Len(LegacyKeys) : map_source_name(LegacyKeys[i]) = Wire(i)
    /\ \A job \in SourceJobs :
         IsLegacy(job.value) => job.payload = Wire(IndexOf(LegacyKeys, job.value))

C8_Witness ==
    /\ CanonicalSources = <<"TV", "Off", "CustomName">>
    /\ \E i \in 1..Len(published) :
         /\ published[i].command = "source"
         /\ published[i].value = "TV"
         /\ published[i].payload = "Source 3"

(* C9: "Off" is mapped to "Off" in every state, also when a record lists   *)
(* "Off" in available_sources.                                              *)
C9_OffIsOff ==
    /\ map_source_name("Off") = "Off"
    /\ \A job \in SourceJobs : job.value = "Off" => job.payload = "Off"

C9_Witness ==
    /\ "Off" \in ListedSources
    /\ \E i \in 1..Len(published) :
         /\ published[i].command = "source"
         /\ published[i].value = "Off"
         /\ published[i].payload = "Off"

(* C10: a source value that is not "Off", not a key of the legacy table and *)
(* not listed in available_sources is mapped to itself ("Source 5" stays    *)
(* "Source 5"), and the command that carries it is handed to the executor   *)
(* without an error.                                                        *)
C10_UnknownNamePassesThrough ==
    /\ [](/\ "Source 5" \notin ListedSources => map_source_name("Source 5") = "Source 5"
          /\ \A job \in SourceJobs :
               (job.value # "Off" /\ ~IsLegacy(job.value) /\ job.value \notin ListedSources)
               => job.payload = job.value)
    /\ [][(n_ops' = n_ops + 1 /\ mqtt_client = "client" /\ connected) =>
            \A z \in CmdZoneIds, v \in SourceValues :
                ( /\ v # "Off" /\ ~IsLegacy(v) /\ v \notin ListedSources
                  /\ async_send_command(z, "source", v) )
                => /\ raised' = "none"
                   /\ \E job \in jobs' \ jobs : job.value = v /\ job.payload = v]_vars

C10_Witness ==
    /\ 0 \in DOMAIN zones
    /\ "Source 5" \notin ListedSources
    /\ raised = "none"
    /\ \E i \in 1..Len(published) :
         /\ published[i].command = "source"
         /\ published[i].value = "Source 5"
         /\ published[i].payload = "Source 5"

(* The wire value of a command: the table value for a source the legacy     *)
(* table has, the value itself otherwise.                                   *)
Translated(command, value) ==
    IF command = "source" /\ IsLegacy(value)
    THEN Wire(IndexOf(LegacyKeys, value))
    ELSE value

(* C11: with the client set and the connected flag true, a zone command     *)
(* (z, attr, value) hands exactly one publish to the executor, on topic     *)
(* ampbridge/zones/z/attr/set, and a group command (g, attr, value) exactly *)
(* one on ampbridge/groups/g/attr/set; its payload is the translated value, *)
(* which is the value itself for every attribute but source; the executor   *)
(* passes each hand-over to the client once.                                *)
C11_OnePublishPerCommand ==
    [][ /\ (n_ops' = n_ops + 1 /\ mqtt_client = "client" /\ connected) =>
            /\ \A z \in CmdZoneIds, c \in Commands :
                 async_send_command(z, c[1], c[2])
                 => /\ published' = published
                    /\ \E job \in jobs' \ jobs :
                         /\ jobs' = jobs \cup {job}
                         /\ job.topic = <<"ampbridge", "zones", ToString(z), c[1], "set">>
                         /\ job.payload = Translated(c[1], c[2])
                         /\ (c[1] # "source" => job.payload = c[2])
            /\ \A g \in CmdGroupIds, c \in GroupCommands :
                 async_send_group_command(g, c[1], c[2])
                 => /\ published' = published
                    /\ \E job \in jobs' \ jobs :
                         /\ jobs' = jobs \cup {job}
                         /\ job.topic = <<"ampbridge", "groups", ToString(g), c[1], "set">>
                         /\ job.payload = Translated(c[1], c[2])
                         /\ (c[1] # "source" => job.payload = c[2])
        /\ \A job \in jobs :
            (mqtt_client = "client" /\ run_publish(job))
            => /\ published' = Append(published, job)
               /\ jobs' = jobs \ {job} ]_vars

C11_Witness ==
    /\ Len(published) = 2
    /\ jobs = {}
    /\ \E i \in 1..2 :
         /\ published[i].topic = <<"ampbridge", "zones", "0", "volume", "set">>
         /\ published[i].payload = "42"
    /\ \E i \in 1..2 :
         /\ published[i].topic = <<"ampbridge", "groups", "1", "mute", "set">>
         /\ published[i].payload = "ON"

(* The message gets past the topic checks to the end of the zones branch    *)
(* (a zone of the store) or of the groups branch.                           *)
Reaches(msg) ==
    /\ decode(msg.payload).ok
    /\ Len(msg.topic) >= 4
    /\ msg.topic[1] = "ampbridge"
    /\ int(msg.topic[3]).ok
    /\ \/ msg.topic[2] = "zones" /\ int(msg.topic[3]).val \in DOMAIN zones
       \/ msg.topic[2] = "groups"

(* C12 as stated: a message triggers one notification exactly when it       *)
(* changed the store, so the notifications count the messages that mutated  *)
(* the store and a message that mutated nothing triggers none.              *)
C12_NotifiedIffMutated ==
    [][MessageStep =>
        /\ notified' \in {notified, notified + 1}
        /\ (notified' = notified + 1) <=> (<<zones, groups>>' # <<zones, groups>>)]_vars

(* C12 amended: a message triggers exactly one notification when it is      *)
(* addressed to a zone of the store or to a group with an integer id,       *)
(* whether or not it changed a field, and none otherwise; every message     *)
(* that changed the store triggers one; the notification is scheduled with  *)
(* the write done, and each scheduled callback delivers one snapshot of the *)
(* store as it is when the callback runs.                                   *)
C12_NotifiedPerHandledMessage ==
    [][ /\ MessageStep =>
            /\ \A msg \in Messages :
                 on_message(msg) =>
                    /\ notified' = notified + (IF Reaches(msg) THEN 1 ELSE 0)
                    /\ loop_queue' = loop_queue + (IF Reaches(msg) THEN 1 ELSE 0)
            /\ (<<zones, groups>>' # <<zones, groups>>) => notified' = notified + 1
        /\ loop_queue' < loop_queue =>
            /\ loop_queue' = loop_queue - 1
            /\ data' = [set |-> TRUE, keys |-> DOMAIN zones]
            /\ UNCHANGED <<zones, groups, notified>> ]_vars

C12_Witness ==
    /\ log = "Invalid volume value"
    /\ n_ops = 1
    /\ notified = 2
    /\ loop_queue = 1
    /\ groups = <<>>
    /\ zones = (0 :> zone_record(Kitchen))

(* A step that hands a snapshot to the observers: the discovery call, or a  *)
(* scheduled callback that runs.                                            *)
Delivery == pc = "init" \/ loop_queue' < loop_queue

(* C13: a snapshot handed to the observers is an immutable copy of the      *)
(* store: what the observers read changes only in a step that hands them a  *)
(* new snapshot, and no message handled later changes a record of the       *)
(* snapshot they hold.                                                      *)
C13_SnapshotImmutable ==
    [][~Delivery => coordinator_data' = coordinator_data]_vars

(* C14: no step (inbound message, command, publish, connect, disconnect,    *)
(* stop) removes a zone id or a group id from the store, and a record stays *)
(* under the id it was stored with.                                         *)
C14_RecordsNeverDeleted ==
    [][ /\ DOMAIN zones \subseteq DOMAIN zones'
        /\ DOMAIN groups \subseteq DOMAIN groups'
        /\ \A z \in DOMAIN zones : zones'[z].zone_id = z
        /\ \A g \in DOMAIN groups : groups'[g].group_id = g ]_vars

C14_Witness ==
    /\ DOMAIN zones = {0, 2}
    /\ DOMAIN groups = {1}
    /\ n_ops = 2
    /\ Len(published) = 1
    /\ mqtt_client = "client"
    /\ ~connected
    /\ log = "Disconnected from MQTT broker"

(* C15: the volume of every zone record and of every group record is an     *)
(* integer from 0 to 100 (discovery supplies 30 and 0).                     *)
C15_VolumeInRange ==
    /\ \A z \in DOMAIN zones : zones[z].volume \in 0..100
    /\ \A g \in DOMAIN groups : groups[g].volume \in 0..100

(* A malformed topic: fewer than 4 segments, a first segment that is not    *)
(* the root, a second segment that is neither zones nor groups, or an id    *)
(* segment that int() does not accept.                                      *)
Malformed(topic) ==
    \/ Len(topic) < 4
    \/ topic[1] # "ampbridge"
    \/ topic[2] \notin {"zones", "groups"}
    \/ ~int(topic[3]).ok

MalformedMessages == {msg \in Messages : Malformed(msg.topic)}

(* C16: a message with a malformed topic is dropped without side effects:   *)
(* no record is created or changed, no notification is triggered or         *)
(* scheduled, and nothing is raised.                                        *)
C16_MalformedTopicDropped ==
    [][MessageStep => \A msg \in MalformedMessages :
        on_message(msg)
        => /\ UNCHANGED <<zones, zone_order, groups, notified, loop_queue, data>>
           /\ raised' = "none"]_vars

C16_Witness ==
    /\ log = "Invalid group ID in topic"
    /\ n_ops = 1
    /\ groups = <<>>
    /\ zones = (0 :> zone_record(Kitchen))
    /\ notified = 1
    /\ loop_queue = 0

(* A message the handler cannot use: its payload does not decode or its     *)
(* topic is malformed.                                                      *)
BadMessages == {msg \in Messages : ~decode(msg.payload).ok \/ Malformed(msg.topic)}

(* C17: no inbound message, whatever its topic and payload, makes the       *)
(* handler raise to the MQTT worker; a message whose payload does not       *)
(* decode or whose topic is malformed leaves the loop running, the          *)
(* connection and the subscription as they were and the store untouched:   *)
(* the handler, whose result depends on the store and the message only,     *)
(* does with any later message what it would have done without the bad one. *)
C17_HandlerNeverRaises ==
    [][MessageStep =>
        /\ raised' = "none"
        /\ \A msg \in BadMessages :
             on_message(msg)
             => UNCHANGED <<pc, mqtt_client, connected, subscriptions, zones,
                            zone_order, groups, loop_queue, data, notified>>]_vars

C17_Witness ==
    /\ log = "Error processing MQTT message"
    /\ raised = "none"
    /\ n_ops = 1
    /\ LoopRunning
    /\ connected
    /\ subscriptions = {<<"ampbridge", "zones", "#">>}
    /\ DOMAIN zones = {0, 2}

(* C18: a message for a zone of the store whose attribute is none of name,  *)
(* volume, mute, source, connected, or for a group of the store whose       *)
(* attribute is none of name, description, volume, mute, source,            *)
(* zone_count, raises nothing and changes no field of any record.           *)
C18_UnhandledAttributeIgnored ==
    [][MessageStep =>
        /\ \A msg \in ZoneMessages :
             ( /\ IdOf(msg) \in DOMAIN zones
               /\ AttrOf(msg) \notin ZoneAttributes
               /\ on_message(msg) )
             => zones' = zones /\ groups' = groups /\ raised' = "none"
        /\ \A msg \in GroupMessages :
             ( /\ IdOf(msg) \in DOMAIN groups
               /\ AttrOf(msg) \notin GroupAttributes
               /\ on_message(msg) )
             => zones' = zones /\ groups' = groups /\ raised' = "none"]_vars

C18_Witness ==
    /\ n_ops = 2
    /\ notified = 3
    /\ log = ""
    /\ raised = "none"
    /\ jobs = {}
    /\ published = <<>>
    /\ zones = (0 :> zone_record(Kitchen))
    /\ groups = (1 :> [default_group(1) EXCEPT !.zone_count = 150])

(* A response from which discovery stores every entry *)
Successful(resp) ==
    /\ resp.status = "200"
    /\ resp.success
    /\ resp.has_zones
    /\ \A i \in 1..Len(resp.zones) : RequiredKeys \subseteq resp.zones[i].keys

OnOff(b) == IF b THEN "ON" ELSE "OFF"

(* C19: for every zone of a successful discovery response the stored record *)
(* has mute = "ON" when muted is true and "OFF" otherwise, connected = "ON" *)
(* when connected is true and "OFF" otherwise, name, volume and source as   *)
(* the response gives them, and available_sources as given, or the empty    *)
(* list when the entry has none; muted = true, connected = false gives      *)
(* mute = "ON", connected = "OFF".                                          *)
C19_DiscoveryRecord ==
    [][pc = "init" => \A resp \in ApiResponses :
        (Successful(resp) /\ discover_zones_via_api(resp))
        => /\ DOMAIN zones' = {resp.zones[i].id : i \in 1..Len(resp.zones)}
           /\ \A i \in 1..Len(resp.zones) :
                LET zone_data == resp.zones[i]
                    rec == zones'[zone_data.id]
                IN  /\ rec.mute = OnOff(zone_data.muted)
                    /\ rec.connected = OnOff(zone_data.connected)
                    /\ rec.name = zone_data.name
                    /\ rec.volume = zone_data.volume
                    /\ rec.source = zone_data.source
                    /\ rec.available_sources =
                         IF "available_sources" \in zone_data.keys
                         THEN zone_data.available_sources ELSE <<>>
                    /\ (zone_data.muted /\ ~zone_data.connected)
                         => (rec.mute = "ON" /\ rec.connected = "OFF")]_vars

C19_Witness ==
    /\ pc = "zones_discovered"
    /\ DOMAIN zones = {0, 2}
    /\ zones[0].mute = "ON"
    /\ zones[0].connected = "OFF"
    /\ zones[0].available_sources = <<>>
    /\ zones[2].mute = "OFF"
    /\ zones[2].connected = "ON"
    /\ zones[2].name = "Patio"

(* C20: a discovery that fails (request or decoding error, status other     *)
(* than 200, success flag false, no zones field, or an entry of the list    *)
(* without a required field) raises nothing to its caller, is not tried     *)
(* again, and leaves the store without zone records.                        *)
C20_FailedDiscoveryLeavesNoZones ==
    [][pc = "init" => \A resp \in ApiResponses :
        (~Successful(resp) /\ discover_zones_via_api(resp))
        => /\ zones' = <<>>
           /\ raised' = "none"
           /\ pc' # "init"]_vars

(* C21: after a successful connect the coordinator is sent the state        *)
(* messages of both hierarchies, ampbridge/zones/<id>/<attr> and            *)
(* ampbridge/groups/<id>/<attr>, so that a group state message published    *)
(* after the connect reaches the handler.                                   *)
C21_BothHierarchiesDelivered ==
    (LoopRunning /\ connected)
    => \A msg \in ZoneMessages \cup GroupMessages : Delivered(msg.topic)

(* The list has no name twice and is in ascending code-point order *)
Ascending(list) == \A i, j \in 1..Len(list) : i < j => str_lt(list[i], list[j])

Elements(list) == {list[i] : i \in 1..Len(list)}

(* C22 as stated: get_available_sources returns the canonical order (the    *)
(* first non-empty available_sources list among the records, as it is)      *)
(* when there is one, and otherwise the sorted union of all known sources.  *)
C22_CanonicalOrderPreferred ==
    IF CanonicalSources # <<>>
    THEN get_available_sources = CanonicalSources
    ELSE Ascending(get_available_sources)
         /\ Elements(get_available_sources) = ListedSources

(* C22 amended: get_available_sources returns, whether or not a canonical   *)
(* order is known, the union of the available_sources lists of all zone     *)
(* records, each name once, in ascending code-point order; the lists        *)
(* [Echo, CustomName, TV] give [CustomName, Echo, TV].                      *)
C22_AlwaysSortedUnion ==
    /\ Ascending(get_available_sources)
    /\ Elements(get_available_sources) = ListedSources
    /\ (CanonicalSources = <<"Echo", "CustomName", "TV">> /\ DOMAIN zones = {0})
         => get_available_sources = <<"CustomName", "Echo", "TV">>

C22_Witness ==
    /\ CanonicalSources = <<"TV", "Off", "CustomName">>
    /\ get_available_sources = <<"CustomName", "Off", "TV">>
    /\ pc = "running"

(* C23: startup is ordered.  Until zone discovery and group discovery have  *)
(* both returned there is no MQTT client, no connection and no message      *)
(* handled; the client is created only then; discovery writes the store     *)
(* once, before any message, and after it only a handled message changes a  *)
(* zone record, so a discovery result never overwrites a field a live       *)
(* message has set.                                                         *)
C23_StartupOrdered ==
    /\ [](pc \in {"init", "zones_discovered", "groups_discovered"}
            => /\ mqtt_client = "None"
               /\ ~connected
               /\ subscriptions = {}
               /\ n_ops = 0
               /\ loop_queue = 0)
    /\ [][ /\ (mqtt_client = "None" /\ mqtt_client' = "client") => pc = "groups_discovered"
           /\ (pc # "init") => (pc' # "init")
           /\ (pc # "init" /\ zones' # zones) => MessageStep
           /\ (pc = "init" /\ zones' # zones) => groups = <<>> ]_vars

C23_Witness ==
    /\ pc = "running"
    /\ connected
    /\ n_ops = 1
    /\ zones = (0 :> [zone_record(Kitchen) EXCEPT !.volume = 150])

(* The message is an accepted update of a field of a record of its kind *)
Accepted(msg, attributes) ==
    /\ AttrOf(msg) \in attributes
    /\ (AttrOf(msg) \in IntAttributes => int(msg.payload).ok)

(* C24: updates are applied one at a time, in the order the handler is      *)
(* called.  An accepted update of a field stores its payload whatever the   *)
(* field held, so that after any sequence of accepted updates of one field  *)
(* the field holds the payload of the last; no step but a handled message   *)
(* (and discovery, before the first) changes a record, a command and its    *)
(* publish included, so a source update handled after a source command      *)
(* decides the stored source.                                               *)
C24_LastWriteWins ==
    [][ /\ MessageStep =>
            /\ \A msg \in ZoneMessages :
                 ( /\ IdOf(msg) \in DOMAIN zones
                   /\ Accepted(msg, ZoneAttributes)
                   /\ on_message(msg) )
                 => zones'[IdOf(msg)][AttrOf(msg)] = Stored(AttrOf(msg), msg.payload)
            /\ \A msg \in GroupMessages :
                 ( /\ Accepted(msg, GroupAttributes)
                   /\ on_message(msg) )
                 => groups'[IdOf(msg)][AttrOf(msg)] = Stored(AttrOf(msg), msg.payload)
        /\ (<<zones, groups>>' # <<zones, groups>>) => (pc = "init" \/ MessageStep) ]_vars

C24_Witness ==
    /\ n_ops = 2
    /\ zones = (0 :> [zone_record(Kitchen) EXCEPT !.source = "TV"])
    /\ Len(published) = 1
    /\ published[1].topic = <<"ampbridge", "zones", "0", "source", "set">>
    /\ published[1].value = "CustomName"
    /\ published[1].payload = "CustomName"

(* C25: every notification carries the complete store: once the callbacks  *)
(* scheduled so far have run, the snapshot the observers hold contains      *)
(* every group record as well, so that an observer reading only the         *)
(* snapshot sees an updated group field.                                    *)
C25_SnapshotHasGroups ==
    (data.set /\ loop_queue = 0)
    => \A g \in DOMAIN groups :
         \E k \in DOMAIN coordinator_data : coordinator_data[k] = groups[g]

(* C26: a command whose connection check passed is either published or      *)
(* dropped, whatever disconnect or stop comes between the check and the     *)
(* publish; no exception reaches the caller of the command.                 *)
C26_NoExceptionToCommandCaller ==
    [][\A job \in jobs :
        run_publish(job)
        => /\ raised' = "none"
           /\ published' \in {published, Append(published, job)}]_vars

(* C27: the writes to the store never overlap.  A step that changes a zone  *)
(* or group record is either discovery, which runs on the event loop while  *)
(* no MQTT client (and so no network thread) exists, or a message handled   *)
(* on the network thread; a command, the publish of a command and a         *)
(* snapshot callback, which run on the event loop or an executor thread     *)
(* beside the network thread, write no record.                              *)
C27_SingleWriter ==
    [][ /\ (<<zones, groups>>' # <<zones, groups>>)
            => \/ pc = "init" /\ mqtt_client = "None" /\ n_ops = 0
               \/ MessageStep
        /\ (jobs' # jobs \/ published' # published \/ loop_queue' < loop_queue)
            => UNCHANGED <<zones, zone_order, groups>> ]_vars

C27_Witness ==
    /\ n_ops = 2
    /\ zones = (0 :> [zone_record(Kitchen) EXCEPT !.volume = 150])
    /\ Len(published) = 1
    /\ published[1].topic = <<"ampbridge", "zones", "0", "volume", "set">>
    /\ published[1].payload = "42"
    /\ loop_queue = 0

(* The message the broker makes of a published command *)
Echo(job) == [topic |-> job.topic, payload |-> job.payload]

(* The message on the first four segments of the topic *)
FirstFour(msg) == [topic |-> SubSeq(msg.topic, 1, 4), payload |-> msg.payload]

LongMessages == {msg \in Messages : Len(msg.topic) > 4}

(* C29: the handler looks at the first four topic segments only.  While the *)
(* client is connected every zone command it published is on a topic its    *)
(* subscription matches; a message on a topic of more than four segments    *)
(* has the effect of the message on the first four; and a published zone    *)
(* command that the broker delivers back sets the addressed field of the    *)
(* zone to the command's wire value (int of it for volume), with one        *)
(* notification.                                                            *)
C29_FirstFourSegmentsOnly ==
    /\ []((LoopRunning /\ connected) =>
            \A i \in 1..Len(published) :
                published[i].kind = "zones" => Delivered(published[i].topic))
    /\ [][MessageStep =>
          /\ \A msg \in LongMessages :
                on_message(msg) <=> on_message(FirstFour(msg))
          /\ \A i \in 1..Len(published) :
                ( /\ published[i].kind = "zones"
                  /\ published[i].id \in DOMAIN zones
                  /\ published[i].command \in ZoneAttributes
                  /\ (published[i].command = "volume" => int(published[i].payload).ok)
                  /\ broker_echo(i) )
                => /\ zones' = [zones EXCEPT ![published[i].id] =
                                  [@ EXCEPT ![published[i].command] =
                                      Stored(published[i].command, published[i].payload)]]
                   /\ on_message(FirstFour(Echo(published[i])))
                   /\ notified' = notified + 1 ]_vars

C29_Witness ==
    /\ n_ops = 2
    /\ Len(published) = 1
    /\ published[1].topic = <<"ampbridge", "zones", "0", "source", "set">>
    /\ published[1].value = "TV"
    /\ published[1].payload = "Source 3"
    /\ 0 \in DOMAIN zones
    /\ zones[0].source = "Source 3"
    /\ notified = 1

VolumeOrMute == {"volume", "mute"}

(* The step handles a message for field f of record id of the given kind:   *)
(* one that arrives from outside or a published command sent back.          *)
Ingested(kind, id, f) ==
    /\ MessageStep
    /\ \E msg \in Messages \cup {Echo(published[i]) : i \in 1..Len(published)} :
          /\ decode(msg.payload).ok
          /\ Len(msg.topic) >= 4
          /\ msg.topic[1] = "ampbridge"
          /\ msg.topic[2] = kind
          /\ int(msg.topic[3]).ok
          /\ int(msg.topic[3]).val = id
          /\ msg.topic[4] = f
          /\ on_message(msg)

C28_SetupTerminates ==
    /\ setup.polls <= PollCount
    /\ (setup.polls = PollCount => setup.pc # "polling" \/ ENABLED poll_data)
    /\ setup.raised = "none"
    /\ (setup.pc = "done" /\ setup.platform = "number" /\ zones = <<>>)
        => setup.entities = 0
    /\ (setup.pc = "done" /\ setup.platform = "group_number" /\ groups = <<>>)
        => setup.entities = 0

(* C31: the connected flag is false before the client is started; a connect *)
(* callback with result code 0 sets it, a connect callback with another     *)
(* code and every disconnect callback clear it, and nothing else changes    *)
(* it, so it tells whether the last callback was a successful connect; a    *)
(* command hands a publish to the executor only in a state where the flag   *)
(* is true, and only such a publish reaches the client.                     *)
C31_ConnectedFlag ==
    /\ [](pc \in {"init", "zones_discovered", "groups_discovered"} => ~connected)
    /\ [][ /\ on_connect(0) => connected'
           /\ (\E rc \in {5} : on_connect(rc)) => ~connected'
           /\ on_disconnect => ~connected'
           /\ (connected' # connected)
                => \/ \E rc \in {0, 5} : on_connect(rc)
                   \/ on_disconnect
                   \/ async_stop(TRUE)
           /\ (jobs' \ jobs # {}) => (connected /\ mqtt_client = "client")
           /\ (published' # published)
                => \E job \in jobs : published' = Append(published, job) ]_vars

C31_Witness ==
    /\ pc = "running"
    /\ ~connected
    /\ log = "Disconnected from MQTT broker"
    /\ Len(published) = 1
    /\ published[1].kind = "zones"
    /\ published[1].command = "mute"
    /\ n_ops = 1

(* The filter of line 73 *)
InboundWildcard == MQTT_BASE_TOPIC \o <<"#">>

(* C32: every connect callback with result code 0, the first one and each   *)
(* one after a disconnect, requests the subscription to the inbound         *)
(* wildcard; so while the client exists and the connected flag is true, the *)
(* subscription has been requested on the current connection.               *)
C32_SubscribedWhenConnected ==
    /\ []((mqtt_client = "client" /\ connected) => InboundWildcard \in subscriptions)
    /\ [][on_connect(0) => InboundWildcard \in subscriptions']_vars

C32_Witness ==
    /\ pc = "running"
    /\ connected
    /\ subscriptions = {InboundWildcard}
    /\ Len(published) = 1
    /\ published[1].command = "source"
    /\ \E job \in jobs : job.kind = "groups" /\ job.command = "volume"
    /\ n_ops = 2

(* The source values the mapping is applied to: the keys and the values of  *)
(* the table, and the values the commands carry.                            *)
MappingInputs ==
    DOMAIN source_mapping
        \cup {source_mapping[k] : k \in DOMAIN source_mapping}
        \cup SourceValues

(* C33: mapping a mapped source value gives the mapped value again, for     *)
(* every source value and for the payload of every source command made.     *)
C33_MappingIdempotent ==
    /\ \A v \in MappingInputs :
          map_source_name(map_source_name(v)) = map_source_name(v)
    /\ \A job \in SourceJobs :
          /\ job.payload = map_source_name(job.value)
          /\ map_source_name(job.payload) = job.payload

C33_Witness ==
    /\ Len(published) = 2
    /\ published[1].command = "source"
    /\ published[1].value = "TV"
    /\ published[1].payload = "Source 3"
    /\ published[2].command = "source"
    /\ published[2].value = "Source 5"
    /\ published[2].payload = "Source 5"

(* The zone ids a select entity is asked about: those of the API responses *)
(* and one that no response has.                                            *)
SelectZoneIds == {0, 1, 2}

(* C34: once a snapshot has been handed over (select entities exist only    *)
(* for the zones of a snapshot), current_option of a zone's source select   *)
(* is None or a member of options; it is None when the zone is not in the   *)
(* snapshot or its stored source is not in options, and the stored source   *)
(* otherwise.                                                               *)
C34_CurrentOptionInOptions ==
    data.set => \A z \in SelectZoneIds :
        /\ current_option(z).raised = "none"
        /\ \/ current_option(z) = None
           \/ current_option(z).val \in Elements(options)
        /\ (z \notin DOMAIN coordinator_data) => current_option(z) = None
        /\ (z \in DOMAIN coordinator_data /\ zones[z].source \notin Elements(options))
            => current_option(z) = None
        /\ (z \in DOMAIN coordinator_data /\ zones[z].source \in Elements(options))
            => current_option(z) = Value(zones[z].source)

C34_Witness ==
    /\ data.set
    /\ DOMAIN coordinator_data = {0, 2}
    /\ zones[0].source = "Source 3"
    /\ current_option(0) = None
    /\ current_option(1) = None
    /\ current_option(2) = Value("Off")
    /\ options = <<"Off", "CustomName", "Off", "TV">>

(* C35: once a zone update has been accepted and every scheduled snapshot   *)
(* has been delivered, the volume sensor and the source sensor of a zone of *)
(* the snapshot report the volume and the source the snapshot holds for     *)
(* that zone, and a sensor reports None only for a zone that is not in the  *)
(* snapshot.                                                                *)
C35_SensorReportsSnapshot ==
    (data.set /\ n_ops > 0 /\ notified > 1 /\ loop_queue = 0)
    => \A z \in SensorZoneIds :
        /\ z \in DOMAIN coordinator_data
            => /\ ~volume_native_value(z).is_none
               /\ volume_native_value(z).val = coordinator_data[z].volume
               /\ ~source_native_value(z).is_none
               /\ source_native_value(z).val = coordinator_data[z].source
        /\ volume_native_value(z).is_none => z \notin DOMAIN coordinator_data
        /\ source_native_value(z).is_none => z \notin DOMAIN coordinator_data

=============================================================================
